---- MODULE Spec2Model ----
(***************************************************************************)
(* A model of mmda.types.document.Document: the annotation field registry, *)
(* the annotate/add binding paths, to_json/from_json, save and find.       *)
(*                                                                         *)
(* Python objects are modelled by identity: a Document is a DocId, the     *)
(* list object shared through the class attribute DEFAULT_FIELDS is a      *)
(* ListRef, an Annotation is an element of Annotations carrying a mutable  *)
(* back-reference annDoc.  Every method is a pure operator from the heap   *)
(* (a record of the mutable variables) to an outcome record                *)
(* [status, why, field, value, st]; the actions apply these operators.     *)
(***************************************************************************)
EXTENDS Naturals, Sequences, FiniteSets, TLC

VARIABLES docs, symbols, images, _fields, lists, _indexers, attrs, annDoc,
          files, pngs, last

vars == <<docs, symbols, images, _fields, lists, _indexers, attrs, annDoc,
          files, pngs, last>>

\* ------------------------------------------------------------------ bounds
MaxDocs == 2
MaxPages == 2

\* ------------------------------------------------------------- the universe
\* Python's None where a list is expected, where a Document is expected, and
\* where a name is expected.
None == <<"None">>
NoDoc == 0
NoName == ""
Symbols == "symbols"
Images == "images"

DocIds == 1..MaxDocs
Names == {"symbols", "images", "tokens", "sentences", "_tokens", "fields", "find"}
Annotations == {"t1", "t2"}
ImageLists == {None, <<"imgA">>, <<"imgB", "imgC">>}

\* The page an annotation lies on (zero-based).
PageOf(a) == IF a = "t1" THEN 0 ELSE 1

\* The annotation lists the calls are given: empty, and both orders of two.
AnnSeqs == {<< >>, <<"t1", "t2">>, <<"t2", "t1">>}
\* A keyword argument's value: a list of annotations, or a non-iterable (None).
Values == AnnSeqs \cup {None}

InList(x, s) == \E i \in 1..Len(s) : s[i] = x

\* str.startswith("_") over the names of the universe.
StartsWithUnderscore(name) == name \in {"_tokens", "_fields", "_indexers"}

\* The reference held by the class attribute Document.DEFAULT_FIELDS.
ClassList == "Document.DEFAULT_FIELDS"
ListRefs == {ClassList}
DEFAULT_FIELDS == <<Symbols, Images>>

\* The names defined in the class body: what the class object itself holds.
ClassAttrs ==
    {"DEFAULT_FIELDS", "fields", "_register_field", "_annotate", "annotate", "_add",
     "add", "to_json", "save", "from_json", "load", "find"}
\* The instance attributes __init__ sets.
InitAttrs == {"symbols", "images", "_fields", "_indexers"}

\* ------------------------------------------------------------------- heap
\* The mutable part of the program state, as the methods see it.
Heap ==
    [lists |-> lists, indexers |-> _indexers, attrs |-> attrs, annDoc |-> annDoc,
     files |-> files, pngs |-> pngs]

\* What a call does: how it ends (status "ok", or the exception raised, with
\* the check or statement that raised it), what it returns, the heap it leaves.
Outcome(status, why, field, value, st) ==
    [status |-> status, why |-> why, field |-> field, value |-> value, st |-> st]

\* Document.fields: the list object self._fields refers to.
fields(S, d) == S.lists[_fields[d]]

\* dir(self): class attributes, instance attributes, attributes set by setattr.
dir(S, d) == ClassAttrs \cup InitAttrs \cup DOMAIN S.attrs[d]

\* The reference __init__ stores in self._fields: the class's own list object.
InitFieldsRef(d) == ClassList

\* DocSpanGroupIndexer(num_pages): an empty index over the document's pages.
NewIndexer(num_pages) == [num_pages |-> num_pages, entries |-> <<>>]

\* Indexer.index(query): the entries on the queried page, in insertion order.
index(ix, query) == SelectSeq(ix.entries, LAMBDA a : PageOf(a) = query)

\* _register_field without the assertion that the name is new.
RegisterCheckNoExists(S, d, field_name) ==
    IF StartsWithUnderscore(field_name) THEN "startswith_"
    ELSE IF field_name \in {"fields"} THEN "fields"
    ELSE IF field_name \in ClassAttrs \cup InitAttrs \cup DOMAIN S.attrs[d] THEN "dir"
    ELSE ""

\* _register_field without the assertion against dir(self).
RegisterCheckNoDir(S, d, field_name) ==
    IF StartsWithUnderscore(field_name) THEN "startswith_"
    ELSE IF InList(field_name, S.lists[_fields[d]]) THEN "exists"
    ELSE IF field_name \in {"fields"} THEN "fields"
    ELSE ""

\* The four assertions of _register_field, in source order; "" when all pass.
RegisterCheck(S, d, field_name) ==
    IF StartsWithUnderscore(field_name) THEN "startswith_"
    ELSE IF InList(field_name, fields(S, d)) THEN "exists"
    ELSE IF field_name \in {"fields"} THEN "fields"
    ELSE IF field_name \in dir(S, d) THEN "dir"
    ELSE ""

_register_field(S, d, field_name) ==
    LET why == RegisterCheck(S, d, field_name) IN
    IF why # ""
    THEN Outcome("AssertionError", why, field_name, None, S)
    ELSE Outcome("ok", "", field_name, None,
           [S EXCEPT !.lists[_fields[d]] = Append(@, field_name),
                     !.indexers[d] = (field_name :> NewIndexer(symbols[d])) @@ @])

\* Annotation.annotate(doc): the annotation takes doc as its document and is
\* recorded in the indexer of the field being annotated.
Bind(S, d, field_name, a) ==
    [S EXCEPT !.annDoc[a] = d,
              !.indexers[d][field_name].entries = Append(@, a)]

RECURSIVE BindAll(_, _, _, _, _)
BindAll(S, d, field_name, xs, i) ==
    IF i > Len(xs) THEN S
    ELSE BindAll(Bind(S, d, field_name, xs[i]), d, field_name, xs, i + 1)

\* setattr(self, field_name, value)
SetAttr(S, d, field_name, value) ==
    [S EXCEPT !.attrs[d] = (field_name :> value) @@ @]

\* An _annotate that stores the list without binding its annotations.
_annotateUnbound(S, d, field_name, field_annotations) ==
    LET r == _register_field(S, d, field_name) IN
    IF r.status # "ok" THEN r
    ELSE IF field_annotations = None
    THEN Outcome("TypeError", "not_iterable", field_name, None, r.st)
    ELSE Outcome("ok", "", field_name, None,
           SetAttr(r.st, d, field_name, field_annotations))

_annotate(S, d, field_name, field_annotations) ==
    LET r == _register_field(S, d, field_name) IN
    IF r.status # "ok" THEN r
    ELSE IF field_annotations = None
    THEN Outcome("TypeError", "not_iterable", field_name, None, r.st)
    ELSE Outcome("ok", "", field_name, None,
           SetAttr(BindAll(r.st, d, field_name, field_annotations, 1),
                   d, field_name, field_annotations))

RECURSIVE annotate_from(_, _, _, _)
annotate_from(S, d, annotations, i) ==
    IF i > Len(annotations) THEN Outcome("ok", "", NoName, None, S)
    ELSE LET r == _annotate(S, d, annotations[i][1], annotations[i][2]) IN
         IF r.status # "ok" THEN r ELSE annotate_from(r.st, d, annotations, i + 1)

annotate(S, d, annotations) == annotate_from(S, d, annotations, 1)

\* Document.__eq__ as @dataclass generates it for a class with no dataclass
\* fields: two Documents are equal whenever both are Documents.
DocEq(x, d) == x \in DocIds /\ d \in DocIds

\* The first failing check of _add, in source order; "" when all pass.
AddCheck(S, d, field_name, field_annotations) ==
    IF ~InList(field_name, S.lists[_fields[d]]) THEN "not_in_fields"
    ELSE IF field_name \notin DOMAIN S.indexers[d] THEN "not_in_indexers"
    ELSE IF field_annotations = None THEN "not_iterable"
    ELSE IF \E i \in 1..Len(field_annotations) :
              ~DocEq(S.annDoc[field_annotations[i]], d) THEN "doc_mismatch"
    ELSE ""

\* An _add that binds the annotations again, as _annotate does.
_addRebinding(S, d, field_name, field_annotations) ==
    LET why == AddCheck(S, d, field_name, field_annotations) IN
    IF why = "not_iterable" THEN Outcome("TypeError", why, field_name, None, S)
    ELSE IF why # "" THEN Outcome("AssertionError", why, field_name, None, S)
    ELSE Outcome("ok", "", field_name, None,
                 SetAttr(BindAll(S, d, field_name, field_annotations, 1),
                         d, field_name, field_annotations))

_add(S, d, field_name, field_annotations) ==
    LET why == AddCheck(S, d, field_name, field_annotations) IN
    IF why = "not_iterable" THEN Outcome("TypeError", why, field_name, None, S)
    ELSE IF why # "" THEN Outcome("AssertionError", why, field_name, None, S)
    ELSE Outcome("ok", "", field_name, None,
                 SetAttr(S, d, field_name, field_annotations))

RECURSIVE add_from(_, _, _, _)
add_from(S, d, annotations, i) ==
    IF i > Len(annotations) THEN Outcome("ok", "", NoName, None, S)
    ELSE LET r == _add(S, d, annotations[i][1], annotations[i][2]) IN
         IF r.status # "ok" THEN r ELSE add_from(r.st, d, annotations, i + 1)

add(S, d, annotations) == add_from(S, d, annotations, 1)

\* ----------------------------------------------------------- serialization
Range(s) == {s[i] : i \in 1..Len(s)}

\* The serialized form of one element of a field: Annotation.to_json() drops the
\* back-reference and keeps the span; a page of symbols and an image have forms
\* of their own.
AnnToJson(a) == [span |-> a, page |-> PageOf(a)]
SymbolsToJson(page_count) == [i \in 1..page_count |-> [symbols_of_page |-> i - 1]]
ImageToJson(img) == [base64 |-> img]

\* [group.to_json() for group in getattr(self, field)] for one field.
ToJsonField(S, d, field) ==
    IF field = Symbols THEN [status |-> "ok", value |-> SymbolsToJson(symbols[d])]
    ELSE IF field = Images
    THEN IF images[d] = None THEN [status |-> "TypeError", value |-> None]
         ELSE [status |-> "ok",
               value |-> [i \in 1..Len(images[d]) |-> ImageToJson(images[d][i])]]
    ELSE IF field \in DOMAIN S.attrs[d]
    THEN [status |-> "ok",
          value |-> [i \in 1..Len(S.attrs[d][field]) |-> AnnToJson(S.attrs[d][field][i])]]
    ELSE IF field \in ClassAttrs \ {"fields", "DEFAULT_FIELDS"}
    THEN [status |-> "TypeError", value |-> None]
    ELSE [status |-> "AttributeError", value |-> None]

\* to_json without the filter on the images field.
ToJsonFieldsUnfiltered(S, d, flds, with_images) ==
    IF flds = None THEN S.lists[_fields[d]] ELSE flds

\* The field list to_json serializes: the default is self.fields, and without
\* images the images field is filtered out.
ToJsonFields(S, d, flds, with_images) ==
    LET requested == IF flds = None THEN fields(S, d) ELSE flds IN
    IF ~with_images THEN SelectSeq(requested, LAMBDA f : f # Images) ELSE requested

to_json(S, d, flds, with_images) ==
    LET fs == ToJsonFields(S, d, flds, with_images)
        bad == {i \in 1..Len(fs) : ToJsonField(S, d, fs[i]).status # "ok"}
    IN  IF bad # {}
        THEN LET i == CHOOSE i \in bad : \A j \in bad : i <= j IN
             Outcome(ToJsonField(S, d, fs[i]).status, "getattr", fs[i], None, S)
        ELSE Outcome("ok", "", NoName,
                     [f \in Range(fs) |-> ToJsonField(S, d, f).value], S)

\* from_json: doc_dict.keys() is a dict_keys view, which has no pop; the call
\* ends at its first statement and no Document is constructed.
DictKeysAttrs == {"isdisjoint", "mapping"}
from_json(S, doc_dict) ==
    CASE "pop" \notin DictKeysAttrs ->
        Outcome("AttributeError", "dict_keys.pop", NoName, None, S)

\* find is a classmethod: its first parameter is the class object, which holds
\* the names of the class body only.
find(S, d, query, field_name) ==
    CASE "_indexers" \notin ClassAttrs ->
        Outcome("AttributeError", "Document._indexers", NoName, None, S)

\* ------------------------------------------------------------ file system
\* The directories that exist; the program creates none.
Dirs == {"outdir"}
isdir(path) == path \in Dirs
\* os.path.join(path, "document.json")
JoinDocumentJson(path) == <<path, "document.json">>

\* save without its assertion on the path.
SaveLayoutCheckSkipped(path, with_images, images_in_json) == TRUE

\* The assertion save makes before it writes: the directory layout needs a
\* directory.
SaveLayoutCheck(path, with_images, images_in_json) ==
    (with_images /\ ~images_in_json) => isdir(path)

\* json.dump(doc_json, fp): the text written for a JSON value.
JsonDump(doc_json) == [json |-> doc_json]

\* f"{pid}": the decimal digits of a page index; a png file is known by the
\* digits before ".png".
RECURSIVE Str(_)
Str(n) == IF n < 10 THEN <<n>> ELSE Append(Str(n \div 10), n % 10)

\* int(stem): the number a string of decimal digits denotes.
RECURSIVE Int(_)
Int(ds) ==
    IF Len(ds) = 1 THEN ds[1]
    ELSE 10 * Int(SubSeq(ds, 1, Len(ds) - 1)) + ds[Len(ds)]

\* Image.save writes the picture to a file, Image.load reads it back.
PngEncode(img) == [png |-> img]
PngDecode(file) == file.png

\* for pid, image in enumerate(self.images): image.save(f"{pid}.png"); a file
\* of that name already in the directory is overwritten, the others stay.
RECURSIVE SaveImages(_, _, _, _)
SaveImages(dir_pngs, imgs, i, n) ==
    IF i > n THEN dir_pngs
    ELSE SaveImages((Str(i - 1) :> PngEncode(imgs[i])) @@ dir_pngs, imgs, i + 1, n)

save(S, d, path, flds, with_images, images_in_json) ==
    IF ~SaveLayoutCheck(path, with_images, images_in_json)
    THEN Outcome("AssertionError", "not_a_directory", NoName, None, S)
    ELSE
    LET j == to_json(S, d, flds, with_images /\ images_in_json) IN
    IF j.status # "ok" THEN j
    ELSE IF with_images /\ ~images_in_json
    THEN IF ~isdir(path)
         THEN Outcome(IF <<path>> \in DOMAIN S.files THEN "NotADirectoryError"
                      ELSE "FileNotFoundError", "open", NoName, None, S)
         ELSE LET S1 == [S EXCEPT !.files =
                            (JoinDocumentJson(path) :> JsonDump(j.value)) @@ @] IN
              IF images[d] = None
              THEN Outcome("TypeError", "enumerate", Images, None, S1)
              ELSE Outcome("ok", "", NoName, None,
                     [S1 EXCEPT !.pngs[path] =
                        SaveImages(@, images[d], 1, Len(images[d]))])
    ELSE IF isdir(path)
         THEN Outcome("IsADirectoryError", "open", NoName, None, S)
         ELSE Outcome("ok", "", NoName, None,
                [S EXCEPT !.files = (<<path>> :> JsonDump(j.value)) @@ @])

\* sorted(image_files, key=lambda x: int(stem of x)): the names in ascending
\* order of the number they denote.
RECURSIVE SortedByInt(_)
SortedByInt(names) ==
    IF names = {} THEN << >>
    ELSE LET first == CHOOSE x \in names : \A y \in names : Int(x) <= Int(y) IN
         <<first>> \o SortedByInt(names \ {first})

\* The images load reads from a directory: every *.png of it, in sorted order.
LoadedImages(S, path) ==
    LET image_files == SortedByInt(DOMAIN S.pngs[path]) IN
    [i \in 1..Len(image_files) |-> PngDecode(S.pngs[path][image_files[i]])]

\* json.load(fp): the JSON value of a text json.dump wrote.
JsonLoad(text) == text.json

\* load: the Document from_json builds from the JSON file, with the images
\* read from the directory (or None for a file) assigned to it.
load(S, path) ==
    LET json_path == IF isdir(path) THEN JoinDocumentJson(path) ELSE <<path>>
        imgs == IF isdir(path) THEN LoadedImages(S, path) ELSE None
    IN  IF json_path \notin DOMAIN S.files
        THEN Outcome("FileNotFoundError", "open", NoName, None, S)
        ELSE LET r == from_json(S, JsonLoad(S.files[json_path])) IN
             IF r.status # "ok" THEN r
             ELSE Outcome("ok", "", NoName, [doc |-> r.value, images |-> imgs], r.st)

\* ---------------------------------------------------------------- inputs
\* **annotations: an ordered mapping with distinct keys.
\* A name no check of _register_field rejects on a fresh Document, with every
\* value; a name some check rejects, with one value.
FreshNames == {"tokens", "sentences"}
Pairs == (FreshNames \X Values) \cup ((Names \ FreshNames) \X {<<"t1", "t2">>})
\* Two fields in one call: a fresh name first, then any kind of second field.
FirstOfTwo == FreshNames \X {<<"t1", "t2">>}
SecondOfTwo == {"tokens", "sentences", "_tokens"} \X {<<"t2", "t1">>, None}
Kwargs ==
    {<<p>> : p \in Pairs}
    \cup {<<pq[1], pq[2]>> : pq \in {x \in FirstOfTwo \X SecondOfTwo : x[1][1] # x[2][1]}}
KwargsIO == {<< <<"tokens", <<"t1", "t2">> >> >>}

\* The fields argument of to_json and save.
FieldLists == {None, <<"tokens", Images, "sentences">>}
FieldListsIO == {None, <<Symbols, Images>>}
SavePaths == {"outdir", "doc.json"}
Queries == 0..(MaxPages - 1)

\* --------------------------------------------------------------- actions
Commit(op, d, args, r) ==
    /\ lists' = r.st.lists
    /\ _indexers' = r.st.indexers
    /\ attrs' = r.st.attrs
    /\ annDoc' = r.st.annDoc
    /\ files' = r.st.files
    /\ pngs' = r.st.pngs
    /\ last' = [op |-> op, args |-> args, status |-> r.status,
                why |-> r.why, field |-> r.field, value |-> r.value]

Init ==
    /\ docs = {}
    /\ symbols = << >>
    /\ images = << >>
    /\ _fields = << >>
    /\ lists = [r \in ListRefs |-> DEFAULT_FIELDS]
    /\ _indexers = << >>
    /\ attrs = << >>
    /\ annDoc = [a \in Annotations |-> NoDoc]
    /\ files = << >>
    /\ pngs = [p \in Dirs |-> << >>]
    /\ last = [op |-> "start", args |-> << >>, status |-> "ok",
               why |-> "", field |-> NoName, value |-> None]

\* Document(symbols, images): the new object takes the next identity.
New(page_count, imgs) ==
    LET d == Cardinality(docs) + 1 IN
    /\ d \in DocIds
    /\ docs' = docs \cup {d}
    /\ symbols' = (d :> page_count) @@ symbols
    /\ images' = (d :> imgs) @@ images
    /\ _fields' = (d :> InitFieldsRef(d)) @@ _fields
    /\ _indexers' = (d :> << >>) @@ _indexers
    /\ attrs' = (d :> << >>) @@ attrs
    /\ last' = [op |-> "new", args |-> << >>, status |-> "ok",
                why |-> "", field |-> NoName, value |-> None]
    /\ UNCHANGED <<lists, annDoc, files, pngs>>

RegisterField(d, field_name) ==
    /\ Commit("register_field", d, << >>, _register_field(Heap, d, field_name))
    /\ UNCHANGED <<docs, symbols, images, _fields>>

Annotate(d, annotations) ==
    /\ Commit("annotate", d, << >>, annotate(Heap, d, annotations))
    /\ UNCHANGED <<docs, symbols, images, _fields>>

Add(d, annotations) ==
    /\ Commit("add", d, << >>, add(Heap, d, annotations))
    /\ UNCHANGED <<docs, symbols, images, _fields>>

ToJson(d, flds, with_images) ==
    /\ Commit("to_json", d, <<flds, with_images>>, to_json(Heap, d, flds, with_images))
    /\ UNCHANGED <<docs, symbols, images, _fields>>

\* from_json applied to the JSON form of a live Document.
FromJson(d) ==
    /\ to_json(Heap, d, None, FALSE).status = "ok"
    /\ Commit("from_json", d, << >>, from_json(Heap, to_json(Heap, d, None, FALSE).value))
    /\ UNCHANGED <<docs, symbols, images, _fields>>

Find(d, query, field_name) ==
    /\ Commit("find", d, << >>, find(Heap, d, query, field_name))
    /\ UNCHANGED <<docs, symbols, images, _fields>>

Save(d, path, flds, with_images, images_in_json) ==
    /\ Commit("save", d, <<path, with_images, images_in_json>>,
              save(Heap, d, path, flds, with_images, images_in_json))
    /\ UNCHANGED <<docs, symbols, images, _fields>>

Load(path) ==
    /\ Commit("load", NoDoc, <<path>>, load(Heap, path))
    /\ UNCHANGED <<docs, symbols, images, _fields>>

\* The registry and query operations, on documents without images.
Next ==
    \/ \E pc \in {MaxPages}, imgs \in {None} : New(pc, imgs)
    \/ \E d \in docs, n \in Names : RegisterField(d, n)
    \/ \E d \in docs, m \in Kwargs : Annotate(d, m)
    \/ \E d \in docs, m \in Kwargs : Add(d, m)
    \/ \E d \in docs, fl \in FieldLists, wi \in BOOLEAN : ToJson(d, fl, wi)
    \/ \E d \in docs : FromJson(d)
    \/ \E d \in docs, q \in Queries, n \in FreshNames : Find(d, q, n)

Spec == Init /\ [][Next]_vars

\* The persistence operations, on documents with and without images.
NextIO ==
    \/ \E pc \in {MaxPages}, imgs \in ImageLists : New(pc, imgs)
    \/ \E d \in docs, m \in KwargsIO : Annotate(d, m)
    \/ \E d \in docs, fl \in FieldListsIO, wi \in BOOLEAN : ToJson(d, fl, wi)
    \/ \E d \in docs, p \in SavePaths, fl \in FieldListsIO, wi \in BOOLEAN,
          ij \in BOOLEAN : Save(d, p, fl, wi, ij)
    \/ \E p \in SavePaths : Load(p)

SpecIO == Init /\ [][NextIO]_vars
\* ---------------------------------------------------------------- claims
Reserved == {Symbols, Images}
\* The names d was registered under: each registration creates d's indexer.
RegisteredOn(d) == DOMAIN _indexers[d]
\* The attributes and methods a Document has apart from its annotation fields.
OwnAttrs == ClassAttrs \cup InitAttrs
ValidName(n) == ~StartsWithUnderscore(n) /\ n # "fields" /\ n \notin OwnAttrs

\* C1: every non-reserved name in a Document's field set has an entry in that
\* Document's indexer mapping.
C1_FieldsHaveIndexers ==
    \A d \in docs : \A i \in 1..Len(fields(Heap, d)) :
        fields(Heap, d)[i] \notin Reserved => fields(Heap, d)[i] \in DOMAIN _indexers[d]

\* C2: registering a name already registered on the Document, directly or
\* through annotate, fails on the name and changes nothing; no name occurs
\* twice in a Document's field set.
C2_DuplicateRejected ==
    \A d \in docs :
        /\ \A i, j \in 1..Len(fields(Heap, d)) :
               fields(Heap, d)[i] = fields(Heap, d)[j] => i = j
        /\ \A n \in RegisteredOn(d) :
               /\ _register_field(Heap, d, n).status = "AssertionError"
               /\ _register_field(Heap, d, n).st = Heap
               /\ \A v \in Values :
                      /\ annotate(Heap, d, << <<n, v>> >>).status = "AssertionError"
                      /\ annotate(Heap, d, << <<n, v>> >>).st = Heap

C2_Witness ==
    /\ last.op \in {"register_field", "annotate"}
    /\ last.status = "AssertionError"
    /\ last.why = "exists"
    /\ docs = {1}
    /\ last.field \in RegisteredOn(1)

\* C3: a name that starts with "_", is "fields", or is an attribute or method
\* of the Document is refused by register_field and by annotate, which change
\* nothing; no non-reserved name of a field set has one of these shapes.
C3_BadNamesRejected ==
    \A d \in docs :
        /\ \A n \in Names :
               (StartsWithUnderscore(n) \/ n = "fields" \/ n \in dir(Heap, d)) =>
                   /\ _register_field(Heap, d, n).status = "AssertionError"
                   /\ _register_field(Heap, d, n).st = Heap
                   /\ \A v \in Values :
                          /\ annotate(Heap, d, << <<n, v>> >>).status = "AssertionError"
                          /\ annotate(Heap, d, << <<n, v>> >>).st = Heap
        /\ \A i \in 1..Len(fields(Heap, d)) :
               fields(Heap, d)[i] \notin Reserved => ValidName(fields(Heap, d)[i])

C3_Witness ==
    /\ last.op \in {"register_field", "annotate"}
    /\ last.status = "AssertionError"
    /\ last.why = "dir"
    /\ last.field = "find"
    /\ \E d \in docs : RegisteredOn(d) # {}

\* C4: annotate with valid names not yet registered on the Document succeeds,
\* and afterwards every name is in the field set and holds its input list.
C4_AnnotateStoresInput ==
    \A d \in docs : \A m \in Kwargs :
        (\A i \in 1..Len(m) :
            ValidName(m[i][1]) /\ m[i][1] \notin RegisteredOn(d) /\ m[i][2] \in AnnSeqs)
        => LET r == annotate(Heap, d, m) IN
           /\ r.status = "ok"
           /\ \A i \in 1..Len(m) :
                  /\ InList(m[i][1], fields(r.st, d))
                  /\ m[i][1] \in DOMAIN r.st.attrs[d]
                  /\ r.st.attrs[d][m[i][1]] = m[i][2]

\* C5: add fails, and leaves the stored values alone, when the name was never
\* registered on the Document and when some annotation references another
\* Document or none.
C5_AddRejects ==
    \A d \in docs : \A n \in Names : \A xs \in AnnSeqs :
        (\/ n \notin RegisteredOn(d)
         \/ ~InList(n, fields(Heap, d))
         \/ \E i \in 1..Len(xs) : annDoc[xs[i]] # d)
        => /\ add(Heap, d, << <<n, xs>> >>).status # "ok"
           /\ add(Heap, d, << <<n, xs>> >>).st.attrs = attrs

\* C6: from_json of a Document's JSON form succeeds, and the JSON form of the
\* Document it returns equals the one it was given.
C6_JsonRoundTrip ==
    \A d \in docs :
        LET j == to_json(Heap, d, None, FALSE) IN
        j.status = "ok" =>
            LET r == from_json(Heap, j.value) IN
            /\ r.status = "ok"
            /\ to_json(r.st, r.value, None, FALSE).value = j.value

\* C7: to_json with with_images false returns no images key, also when the
\* requested fields name images.
C7_NoImagesKey ==
    \A d \in docs : \A fl \in FieldLists \cup FieldListsIO \cup {<<Images>>} :
        LET r == to_json(Heap, d, fl, FALSE) IN
        r.status = "ok" => Images \notin DOMAIN r.value

C7_Witness ==
    /\ last.op = "to_json"
    /\ last.status = "ok"
    /\ last.args[2] = FALSE
    /\ last.args[1] # None
    /\ InList(Images, last.args[1])
    /\ docs = {1}
    /\ images[1] # None
    /\ Symbols \in DOMAIN last.value

\* C8: find on a name never registered on the Document fails on the lookup of
\* that name (a KeyError) and changes nothing.
C8_FindUnknownField ==
    \A d \in docs : \A q \in Queries : \A n \in Names \ RegisteredOn(d) :
        /\ find(Heap, d, q, n).status = "KeyError"
        /\ find(Heap, d, q, n).st = Heap

\* C9: find on a field registered by annotate returns what the field's Indexer
\* returns for the query.
C9_FindDelegates ==
    \A d \in docs : \A n \in RegisteredOn(d) : \A q \in Queries :
        /\ find(Heap, d, q, n).status = "ok"
        /\ find(Heap, d, q, n).value = index(_indexers[d][n], q)

\* C10: save in the directory layout on a path that is no directory fails on
\* its assertion and writes no file.
C10_SaveNeedsDirectory ==
    \A d \in docs : \A p \in SavePaths \cup {"nodir"} : \A fl \in FieldListsIO :
        ~isdir(p) =>
            LET r == save(Heap, d, p, fl, TRUE, FALSE) IN
            /\ r.status = "AssertionError"
            /\ r.why = "not_a_directory"
            /\ r.st = Heap

C10_Witness ==
    /\ last.op = "save"
    /\ last.args = <<"doc.json", TRUE, FALSE>>
    /\ last.status = "AssertionError"
    /\ last.why = "not_a_directory"
    /\ docs = {1}
    /\ images[1] # None
    /\ files = << >>
    /\ \A p \in Dirs : pngs[p] = << >>

\* C11: when annotate or add fails on a field, the Document's field set,
\* indexer mapping and stored values are those left by the fields before it in
\* the same call: the earlier fields stay committed and the failed field has
\* changed nothing.
C11_FailedFieldChangesNothing ==
    \A d \in docs : \A m \in Kwargs :
        /\ LET r == annotate(Heap, d, m) IN
           r.status # "ok" =>
               \E k \in 1..Len(m) :
                   /\ m[k][1] = r.field
                   /\ LET pre == annotate(Heap, d, SubSeq(m, 1, k - 1)) IN
                      /\ pre.status = "ok"
                      /\ fields(r.st, d) = fields(pre.st, d)
                      /\ r.st.indexers[d] = pre.st.indexers[d]
                      /\ r.st.attrs[d] = pre.st.attrs[d]
        /\ LET r == add(Heap, d, m) IN
           r.status # "ok" =>
               \E k \in 1..Len(m) :
                   /\ m[k][1] = r.field
                   /\ LET pre == add(Heap, d, SubSeq(m, 1, k - 1)) IN
                      /\ pre.status = "ok"
                      /\ fields(r.st, d) = fields(pre.st, d)
                      /\ r.st.indexers[d] = pre.st.indexers[d]
                      /\ r.st.attrs[d] = pre.st.attrs[d]

\* C12: saving a Document with images in the directory layout into an existing
\* directory and loading that directory back succeeds and returns a Document
\* with the same images, as many and in the same page order.
C12_DirectoryRoundTrip ==
    \A d \in docs : \A path \in Dirs :
        images[d] # None =>
            LET s == save(Heap, d, path, None, TRUE, FALSE) IN
            s.status = "ok" =>
                LET r == load(s.st, path) IN
                /\ r.status = "ok"
                /\ r.value.images = images[d]

\* C13: with flags other than (with_images, not images_in_json), save on a path
\* that is no directory writes one JSON file at the path and no image file, and
\* the images field is in its body whenever images_in_json is true; with
\* (with_images, not images_in_json) the body written to document.json has no
\* images field.
C13_SaveLayouts ==
    \A d \in docs : \A p \in SavePaths : \A fl \in FieldListsIO :
        \A with_images \in BOOLEAN : \A images_in_json \in BOOLEAN :
            LET r == save(Heap, d, p, fl, with_images, images_in_json) IN
            IF with_images /\ ~images_in_json
            THEN JoinDocumentJson(p) \in DOMAIN r.st.files =>
                     Images \notin DOMAIN JsonLoad(r.st.files[JoinDocumentJson(p)])
            ELSE ~isdir(p) =>
                     /\ r.status = "ok"
                     /\ DOMAIN r.st.files = DOMAIN files \cup {<<p>>}
                     /\ \A f \in DOMAIN files \ {<<p>>} : r.st.files[f] = files[f]
                     /\ r.st.pngs = pngs
                     /\ images_in_json => Images \in DOMAIN JsonLoad(r.st.files[<<p>>])

\* C14: a successful add of one field stores the given list under that name on
\* the Document and changes nothing else: the field lists, every indexer, the
\* values under the other names and on the other Documents stay as they were.
C14_AddChangesOneValue ==
    \A d \in docs : \A n \in Names : \A xs \in Values :
        LET r == add(Heap, d, << <<n, xs>> >>) IN
        r.status = "ok" =>
            /\ r.st.attrs[d][n] = xs
            /\ DOMAIN r.st.attrs[d] = DOMAIN attrs[d] \cup {n}
            /\ \A n2 \in DOMAIN attrs[d] \ {n} : r.st.attrs[d][n2] = attrs[d][n2]
            /\ \A d2 \in docs \ {d} : r.st.attrs[d2] = attrs[d2]
            /\ r.st.lists = lists
            /\ r.st.indexers = _indexers
            /\ r.st.annDoc = annDoc

\* An add has replaced the value of one of two fields of a Document: the
\* value is no longer the list the field's indexer recorded.
C14_Witness ==
    /\ last.op = "add"
    /\ last.status = "ok"
    /\ docs = {1}
    /\ DOMAIN attrs[1] = {"tokens", "sentences"}
    /\ attrs[1]["tokens"] # _indexers[1]["tokens"].entries
    /\ attrs[1]["sentences"] = _indexers[1]["sentences"].entries
    /\ attrs[1]["sentences"] # << >>

\* C15: after a successful annotate of one field, the list stored under the
\* name holds, position by position, the annotations of the input once bound:
\* each references the Document, the field's indexer recorded them in the
\* order of the list, and add of the stored list under the name succeeds.
C15_StoredListIsBound ==
    \A d \in docs : \A n \in Names : \A xs \in AnnSeqs :
        LET r == annotate(Heap, d, << <<n, xs>> >>) IN
        r.status = "ok" =>
            LET stored == r.st.attrs[d][n] IN
            /\ Len(stored) = Len(xs)
            /\ \A i \in 1..Len(xs) :
                   /\ stored[i] = xs[i]
                   /\ r.st.annDoc[stored[i]] = d
            /\ r.st.indexers[d][n].entries = xs
            /\ add(r.st, d, << <<n, stored>> >>).status = "ok"

\* annotate has stored a list of two annotations, both bound to the Document
\* and recorded by the field's indexer in the order of the list.
C15_Witness ==
    /\ last.op = "annotate"
    /\ last.status = "ok"
    /\ docs = {1}
    /\ DOMAIN attrs[1] = {"tokens"}
    /\ attrs[1]["tokens"] = <<"t2", "t1">>
    /\ annDoc["t1"] = 1 /\ annDoc["t2"] = 1
    /\ _indexers[1]["tokens"].entries = <<"t2", "t1">>

\* C16: load on a directory a Document was saved into returns the images of
\* its png files in ascending order of the number in the file name: the i-th
\* image is that of the file with i - 1 files of smaller number.
C16_LoadSortsByPageNumber ==
    \A path \in Dirs :
        JoinDocumentJson(path) \in DOMAIN files =>
            LET r == load(Heap, path)
                names == DOMAIN pngs[path]
            IN  /\ r.status = "ok"
                /\ Len(r.value.images) = Cardinality(names)
                /\ \A i \in 1..Len(r.value.images) :
                       \E x \in names :
                           /\ Cardinality({y \in names : Int(y) < Int(x)}) = i - 1
                           /\ r.value.images[i] = PngDecode(pngs[path][x])

\* C17: load on a path that names an existing file returns a Document whose
\* images are None, whatever JSON the file holds; load on a path whose JSON
\* file (the path itself, or document.json of a directory) does not exist
\* fails with FileNotFoundError.
C17_LoadFromFile ==
    \A path \in SavePaths \cup {"missing.json"} :
        LET r == load(Heap, path)
            json_path == IF isdir(path) THEN JoinDocumentJson(path) ELSE <<path>>
        IN  /\ json_path \notin DOMAIN files => r.status = "FileNotFoundError"
            /\ (~isdir(path) /\ json_path \in DOMAIN files) =>
                   /\ r.status = "ok"
                   /\ r.value.images = None

\* C18: Documents share no registry state: a Document just constructed has the
\* two reserved names as its field set, and a successful registration of a name
\* on one Document leaves the field set and the indexer mapping of every other
\* Document as they were, so the name can then be registered on another one.
C18_RegistriesAreSeparate ==
    /\ last.op = "new" => fields(Heap, Cardinality(docs)) = DEFAULT_FIELDS
    /\ \A d \in docs : \A n \in FreshNames :
           LET r == _register_field(Heap, d, n) IN
           r.status = "ok" =>
               \A d2 \in docs \ {d} :
                   /\ fields(r.st, d2) = fields(Heap, d2)
                   /\ r.st.indexers[d2] = _indexers[d2]
                   /\ n \notin RegisteredOn(d2) =>
                          _register_field(r.st, d2, n).status = "ok"

\* C19: in every reachable state every non-reserved name of a Document's field
\* set has a value stored on that Document, and to_json with the default
\* field list does not fail on a name without a value.
C19_FieldsHaveValues ==
    \A d \in docs :
        /\ \A i \in 1..Len(fields(Heap, d)) :
               fields(Heap, d)[i] \notin Reserved =>
                   fields(Heap, d)[i] \in DOMAIN attrs[d]
        /\ to_json(Heap, d, None, FALSE).status # "AttributeError"
====
